---- MODULE Spec2Model ----
(***************************************************************************)
(* Wallet service: PostgresRepo.Transfer / transferOnce / GetBalance over  *)
(* the wallets and transactions relations of 0001_init.up.sql.             *)
(*                                                                         *)
(* The store is PostgreSQL at READ COMMITTED: a transaction's writes are   *)
(* private until Commit, a plain SELECT reads the committed relation and   *)
(* never waits, SELECT ... ORDER BY address FOR UPDATE takes the row locks *)
(* one row at a time in address order and reads each row's latest          *)
(* committed version once its lock is granted.                             *)
(***************************************************************************)
EXTENDS Integers, Sequences, FiniteSets, TLC

\* ---- bounds ------------------------------------------------------------
NCalls == 2          \* concurrent Transfer calls
NWallets == 2        \* rows of wallets: addresses 1..NWallets
StartBal == 1        \* balance every wallet is populated with
MaxEnv == 1          \* events of the environment in a run: storage faults, 40P01 signals,
                     \* cancellations and reads by other clients
WordBits == 6        \* width the model gives the int64 of balance_cents
NPairs == 2          \* pairs of opposite transfers in the crossing runs
MaxTicks == 1        \* ticks of the store's clock ahead of the log, where time is followed
NSeeders == 2        \* invocations of SeedInitialWallets against one store
NParties == 3        \* wallets and calls of a ring of transfers

\* ---- program constants -------------------------------------------------
maxAttempts == 10
\* GetLastTransactions: the default and the cap of n
defaultLimit == 10
maxLimit == 100
\* seed.go
defaultWallets == 10
defaultBalanceCents == 10000

Calls == 1..NCalls
Wallets == 1..NWallets
\* address NWallets+1 has no row in wallets
Addresses == 1..(NWallets + 1)
Amounts == (-1)..(StartBal + 1)
Requests == [from : Addresses, to : Addresses, amount : Amounts]

\* ---- error values ------------------------------------------------------
ErrWalletNotFound == "wallet not found"
ErrInsufficientFunds == "insufficient funds"
ErrSameAddress == "from == to"
\* errors.New values built inside the functions: no exported identity
ErrAmount == "amount must be > 0"
ErrRetries == "could not complete transfer after retries"
\* what the store or the context hands back
ErrDeadlock == "40P01"
ErrStore == "storage error"
ErrCtx == "context done"
\* the wrapped errors of SeedInitialWallets
ErrSeed == "seed error"
Nil == "nil"
Pending == "pending"
\* the count parameter of the GET: not given, or not a number
Absent == "absent"
Invalid == "invalid"

VARIABLES
    wallets,        \* committed wallets relation: address -> balance_cents
    transactions,   \* committed transactions relation, in commit order
    nextId,         \* next value of the BIGSERIAL sequence of transactions.id
    locks,          \* row lock of each wallets row: 0 or the call whose tx holds it
    req,            \* arguments of each Transfer call
    pc,             \* position of each Transfer call
    attempt,        \* loop variable of Transfer
    ctxDone,        \* the call's ctx has been cancelled or has expired
    got,            \* rows scanned by transferOnce, in the order returned
    writes,         \* uncommitted UPDATEs of the call's open transaction
    inserts,        \* uncommitted INSERTs of the call's open transaction
    result,         \* what Transfer returned
    conflictsLeft,  \* 40P01 signals the store holds ready for the call (a contended run)
    envLeft,        \* events the environment may still produce
    failedAt,       \* where the call's last attempt failed: before or after its first write
    readOut,        \* what the last GetBalance returned, and whether a transfer had
                    \* uncommitted writes at that moment
    lastErr,        \* err of Transfer's loop: what the call's last transferOnce returned
    clock,          \* the store's clock
    txStart,        \* now() of the call's open transaction: the clock at its start
    listOut,        \* what the last GET of the recent transactions answered
    http,           \* the POST /api/send behind each call: lengths of the two address
                    \* strings, amount in thousandths, and the status code written
    seed,           \* each invocation of SeedInitialWallets: its position, the count it
                    \* read, the rows its open transaction inserted, what it returned
    sleep,          \* milliseconds of the call's last backoff: backoff + jitter
    rng,            \* what rand.Intn(15) gives at its next calls
    collation       \* how the store's ORDER BY address compares two addresses

vars == <<wallets, transactions, nextId, locks, req, pc, attempt, ctxDone, got,
          writes, inserts, result, conflictsLeft, envLeft, failedAt, readOut,
          lastErr, clock, txStart, listOut, http, seed, sleep, rng, collation>>

\* ---- int64 arithmetic --------------------------------------------------
MaxInt == 2^(WordBits - 1) - 1
Wrap(x) == ((x + 2^(WordBits - 1)) % 2^WordBits) - 2^(WordBits - 1)

\* ---- helpers of transferOnce -------------------------------------------
\* a1, a2 := from, to; if a2 < a1 { swap }
LockOrderSenderFirst(from, to) == <<from, to>>
LockOrder(from, to) == IF to < from THEN <<to, from>> ELSE <<from, to>>
\* ORDER BY address: the rows come in the order of the store's collation, which
\* compares two addresses as Go's < on strings does, or the other way round
Bytewise == "bytewise"
Otherwise == "otherwise"
StoreOrder(from, to) ==
    LET o == LockOrder(from, to)
    IN IF collation = Bytewise THEN o ELSE <<o[2], o[1]>>
Swap(from, to) == to < from

FromBalNoSwap(rows, from, to) == rows[1].bal
FromBal(rows, from, to) == IF ~Swap(from, to) THEN rows[1].bal ELSE rows[2].bal
ToBalNoSwap(rows, from, to) == rows[2].bal
ToBal(rows, from, to) == IF ~Swap(from, to) THEN rows[2].bal ELSE rows[1].bal

InsufficientUnchecked(fromBal, amount) == FALSE
InsufficientOffByOne(fromBal, amount) == fromBal <= amount
Insufficient(fromBal, amount) == fromBal < amount
NewFromBalNoDebit(fromBal, amount) == fromBal
NewFromBal(fromBal, amount) == Wrap(fromBal - amount)
NewToBalNoCredit(toBal, amount) == toBal
NewToBal(toBal, amount) == Wrap(toBal + amount)

\* one lock for the whole relation
RowFreeTableLock(a, c) == \A b \in DOMAIN locks : locks[b] = 0 \/ locks[b] = c
\* FOR UPDATE: the row is handed over only while no other transaction holds its lock
RowFreeNoLock(a, c) == TRUE
RowFree(a, c) == locks[a] = 0 \/ locks[a] = c

isDeadlockOrStore(err) == err \in {ErrDeadlock, ErrStore}
isDeadlock(err) == err = ErrDeadlock

\* ---- transaction end ---------------------------------------------------
ReleasedNone(c) == locks
Released(c) == [a \in DOMAIN locks |-> IF locks[a] = c THEN 0 ELSE locks[a]]

RollbackKeepLocks(c) ==
    /\ locks' = locks
    /\ writes' = [writes EXCEPT ![c] = <<>>]
    /\ inserts' = [inserts EXCEPT ![c] = <<>>]

\* tx.Rollback(): the private writes are dropped and the row locks released
Rollback(c) ==
    /\ locks' = Released(c)
    /\ writes' = [writes EXCEPT ![c] = <<>>]
    /\ inserts' = [inserts EXCEPT ![c] = <<>>]

RECURSIVE Apply(_, _)
Apply(w, ups) ==
    IF ups = <<>> THEN w
    ELSE Apply([w EXCEPT ![Head(ups).addr] = Head(ups).bal], Tail(ups))

\* backoff := 15*(attempt+1) ms, with attempt counted from 0
BackoffByTen(a) == 10 * (a + 1)
Backoff(a) == 15 * (a + 1)
\* rand.Intn(15): a value in 0..14
JitterSpan == 15
\* the generator's next values, as many as one call can draw; where time is not
\* followed it gives 0 throughout
StreamLen == maxAttempts + 1
NoJitter == [i \in 1..StreamLen |-> 0]
\* the same value throughout, or the largest and the smallest by turns
Streams ==
    {[i \in 1..StreamLen |-> j] : j \in 0..(JitterSpan - 1)}
    \cup {[i \in 1..StreamLen |-> IF i % 2 = p THEN JitterSpan - 1 ELSE 0] : p \in {0, 1}}

\* Transfer's handling of what transferOnce returned
Returned(c, err) ==
    /\ lastErr' = [lastErr EXCEPT ![c] = err]
    /\ failedAt' = [failedAt EXCEPT ![c] =
            IF err = Nil THEN "none"
            ELSE IF pc[c] \in {"upd2", "ins", "commit"} THEN "write" ELSE "read"]
    /\ got' = [got EXCEPT ![c] = <<>>]
    /\ IF isDeadlock(err)
       THEN /\ pc' = [pc EXCEPT ![c] = "backoff"]
            /\ result' = result
            /\ sleep' = [sleep EXCEPT ![c] = Backoff(attempt[c]) + Head(rng)]
            /\ rng' = Tail(rng)
       ELSE /\ pc' = [pc EXCEPT ![c] = "done"]
            /\ result' = [result EXCEPT ![c] = err]
            /\ UNCHANGED <<sleep, rng>>

Valid(r) == r.from # r.to /\ r.amount > 0
InTx(c) == pc[c] \in {"lock1", "lock2", "upd1", "upd2", "ins", "commit"}

\* ---- initial state -----------------------------------------------------
\* the call the environment acts on: its statements may fail, its ctx may be cancelled
Exposed == {1}
\* what the other calls ask for: transfers between wallets 1 and 2, either way, of
\* the smallest amount or of more than a wallet starts with
Contenders == {r \in Requests : /\ Valid(r) /\ r.from \in {1, 2} /\ r.to \in {1, 2}
                                /\ r.amount \in {1, StartBal + 1}}

\* calls other than the exposed one are interchangeable: one order of their arguments is kept
Rank(r) == (r.from * (NWallets + 2) + r.to) * (StartBal + 4) + r.amount + 1
Ordered(rq, first) == \A c \in first..(NCalls - 1) : Rank(rq[c]) <= Rank(rq[c + 1])

\* the state before any call has taken a step: the committed relations, the
\* calls' arguments and the 40P01 signals the store holds ready
\* a call made on the repository directly: no request behind it
NoRequest == [wellFormed |-> TRUE, fromLen |-> 0, toLen |-> 0, amount |-> 0, code |-> 0]

\* a call with a request behind it starts in the handler, any other in Transfer
StartStore(w, rq, conflicts, env, log, t, h, sd, r, co) ==
    /\ wallets = w
    /\ transactions = log
    /\ nextId = Len(log) + 1
    /\ clock = t
    /\ locks = [a \in DOMAIN w |-> 0]
    /\ req = rq
    /\ conflictsLeft = conflicts
    /\ envLeft = env
    /\ pc = [c \in DOMAIN rq |-> IF h[c] = NoRequest THEN "start" ELSE "recv"]
    /\ attempt = [c \in DOMAIN rq |-> 0]
    /\ ctxDone = [c \in DOMAIN rq |-> FALSE]
    /\ got = [c \in DOMAIN rq |-> <<>>]
    /\ writes = [c \in DOMAIN rq |-> <<>>]
    /\ inserts = [c \in DOMAIN rq |-> <<>>]
    /\ result = [c \in DOMAIN rq |-> Pending]
    /\ failedAt = [c \in DOMAIN rq |-> "none"]
    /\ readOut = [balance |-> 0, err |-> Pending, during |-> FALSE]
    /\ lastErr = [c \in DOMAIN rq |-> Pending]
    /\ txStart = [c \in DOMAIN rq |-> t]
    /\ listOut = [q |-> [kind |-> Absent, v |-> 0], size |-> 0, code |-> 0, rows |-> <<>>]
    /\ http = h
    /\ seed = sd
    /\ sleep = [c \in DOMAIN rq |-> 0]
    /\ rng = r
    /\ collation = co

\* a store whose collation compares addresses as Go does
StartState(w, rq, conflicts, env, log, t, h, sd, r) ==
    StartStore(w, rq, conflicts, env, log, t, h, sd, r, Bytewise)

\* the runs that do not follow the length of a backoff
StartSeeded(w, rq, conflicts, env, log, t, h, sd) ==
    StartState(w, rq, conflicts, env, log, t, h, sd, NoJitter)

\* the store after its population: no invocation of SeedInitialWallets is open
StartAt(w, rq, conflicts, env, log, t, h) ==
    StartSeeded(w, rq, conflicts, env, log, t, h, <<>>)

StartWith(w, rq, conflicts, env, log, t) ==
    StartAt(w, rq, conflicts, env, log, t, [c \in DOMAIN rq |-> NoRequest])

\* an empty log, the clock at 0
Start(w, rq, conflicts, env) == StartWith(w, rq, conflicts, env, <<>>, 0)

\* wallets as SeedInitialWallets leaves them. Call 1 has any arguments and the
\* others contend, with up to MaxEnv events of the environment; or all calls
\* contend and the store raises 40P01 against call 1 up to maxAttempts times,
\* with one further event
Init ==
    \/ \E rq \in [Calls -> Requests] :
          /\ \A c \in Calls \ Exposed : rq[c] \in Contenders
          /\ Ordered(rq, 2)
          /\ Start([a \in Wallets |-> StartBal], rq, [c \in Calls |-> 0], MaxEnv)
    \/ \E rq \in [Calls -> Contenders] :
          /\ Ordered(rq, 2)
          /\ Start([a \in Wallets |-> StartBal], rq,
                   [c \in Calls |-> IF c \in Exposed THEN maxAttempts ELSE 0], 1)

\* NPairs calls A->B and NPairs calls B->A of one amount, both balances NPairs
\* times the amount; the store holds one 40P01 ready for call 1
CrossCalls == 1..(2 * NPairs)
InitCross ==
    \E m \in 1..(StartBal + 1) :
        Start([a \in 1..2 |-> NPairs * m],
              [c \in CrossCalls |-> IF c <= NPairs
                                    THEN [from |-> 1, to |-> 2, amount |-> m]
                                    ELSE [from |-> 2, to |-> 1, amount |-> m]],
              [c \in CrossCalls |-> IF c \in Exposed THEN 1 ELSE 0], 1)

\* call 1 names a sender, a receiver or both that have no row; the other calls
\* contend on wallets 1 and 2; the store holds one 40P01 ready for call 1
Missing == {NWallets + 1, NWallets + 2}
MissingRequests == {r \in [from : Wallets \cup Missing, to : Wallets \cup Missing,
                            amount : 1..(StartBal + 1)] :
                       r.from # r.to /\ (r.from \in Missing \/ r.to \in Missing)}
InitMissing ==
    \E rq \in [Calls -> Requests \cup MissingRequests] :
        /\ \A c \in Exposed : rq[c] \in MissingRequests
        /\ \A c \in Calls \ Exposed : rq[c] \in Contenders
        /\ Ordered(rq, 2)
        /\ Start([a \in Wallets |-> StartBal], rq,
                 [c \in Calls |-> IF c \in Exposed THEN 1 ELSE 0], 1)

\* a hot pair: every call moves one amount between wallets 1 and 2, either way,
\* and each balance covers all of them; no ctx is cancelled and no statement
\* fails, but the store raises 40P01 against call 1 in up to maxAttempts-1 rounds
HotCalls == 1..(NCalls + 1)
InitHot ==
    \E m \in 1..(StartBal + 1), k \in {0, 1, maxAttempts - 1} :
    \E dir \in [HotCalls -> BOOLEAN] :
        /\ \A c \in 2..NCalls : dir[c] => dir[c + 1]
        /\ Start([a \in 1..2 |-> (NCalls + 1) * m],
                 [c \in HotCalls |-> IF dir[c]
                                      THEN [from |-> 1, to |-> 2, amount |-> m]
                                      ELSE [from |-> 2, to |-> 1, amount |-> m]],
                 [c \in HotCalls |-> IF c \in Exposed THEN k ELSE 0], 0)

\* NPairs disjoint pairs of wallets {2p-1, 2p}: call p works on pair p (call 1
\* upwards, the others downwards) and one more call works on pair 1, either way;
\* all move one amount; the store holds one 40P01 ready for call 1
DisjointCalls == 1..(NPairs + 1)
InitDisjoint ==
    \E m \in 1..(StartBal + 1), up \in BOOLEAN :
        Start([a \in 1..(2 * NPairs) |-> StartBal],
              [c \in DisjointCalls |->
                  IF c = 1 THEN [from |-> 1, to |-> 2, amount |-> m]
                  ELSE IF c = NPairs + 1
                  THEN [from |-> IF up THEN 1 ELSE 2, to |-> IF up THEN 2 ELSE 1,
                        amount |-> m]
                  ELSE [from |-> 2 * c, to |-> 2 * c - 1, amount |-> m]],
              [c \in DisjointCalls |-> IF c \in Exposed THEN 1 ELSE 0], 1)

\* a log of n earlier transfers of 1 between wallets 1 and 2, alternating, PerTick
\* of them in each tick of the clock, and the balances they leave
PerTick == 4
LastTick(n) == (n + PerTick - 1) \div PerTick
SeededLog(n) == [i \in 1..n |-> [id |-> i,
                                  from |-> IF i % 2 = 1 THEN 1 ELSE 2,
                                  to |-> IF i % 2 = 1 THEN 2 ELSE 1,
                                  amount |-> 1, created |-> LastTick(i)]]
SeededWallets(n) == [a \in 1..2 |-> IF n % 2 = 0 THEN StartBal
                                    ELSE IF a = 1 THEN StartBal - 1 ELSE StartBal + 1]
\* the transfer that runs next to the reads makes each of them one longer
LogSizes == {0, defaultLimit - 1, defaultLimit, maxLimit}
\* the count parameter of GET /api/transactions
CountValues == {-1, 0, 1, defaultLimit - 1, defaultLimit, defaultLimit + 1,
                maxLimit, maxLimit + 1, 5000}
Counts == {[kind |-> Absent, v |-> 0], [kind |-> Invalid, v |-> 0]}
          \cup {[kind |-> "int", v |-> n] : n \in CountValues}

\* the log holds n records; one call is about to ask for 1, or for 0, from wallet
\* 2 to wallet 1
ListCalls == 1..1
InitList ==
    \E n \in LogSizes, m \in {0, 1} :
        StartWith(SeededWallets(n),
                  [c \in ListCalls |-> [from |-> 2, to |-> 1, amount |-> m]],
                  [c \in ListCalls |-> 0], 0, SeededLog(n), LastTick(n))

\* calls that arrive as POST /api/send. The body of call 1 is malformed, or has
\* address strings of 63 to 65 characters and an amount of -0.010, 0, 0.001, 0.010
\* or more than a wallet holds; the other calls send one cent between wallets 1
\* and 2. Either up to MaxEnv events of the environment, or maxAttempts rounds of
\* 40P01 against call 1 and one event
SendAmounts == {-10, 0, 1, 10, 10 * (StartBal + 1)}
SendBodies ==
    {[wellFormed |-> FALSE, fromLen |-> 64, toLen |-> 64, amount |-> 10, code |-> 0]}
    \cup {[wellFormed |-> TRUE, fromLen |-> f, toLen |-> t, amount |-> m, code |-> 0] :
             f \in {63, 64}, t \in {64, 65}, m \in SendAmounts}
PlainBody == [wellFormed |-> TRUE, fromLen |-> 64, toLen |-> 64, amount |-> 10, code |-> 0]
InitSend ==
    \E b \in SendBodies : \E f, t \in Addresses : \E up \in BOOLEAN, storm \in BOOLEAN :
        /\ (~b.wellFormed \/ b.fromLen # 64 \/ b.toLen # 64) => (f = 1 /\ t = 2)
        /\ storm => (b = PlainBody /\ f = 1 /\ t = 2)
        /\ StartAt([a \in Wallets |-> StartBal],
                     [c \in Calls |-> IF c \in Exposed
                                      THEN [from |-> f, to |-> t, amount |-> 0]
                                      ELSE [from |-> IF up THEN 1 ELSE 2,
                                            to |-> IF up THEN 2 ELSE 1, amount |-> 0]],
                     [c \in Calls |-> IF c \in Exposed /\ storm THEN maxAttempts ELSE 0],
                     IF storm THEN 1 ELSE MaxEnv, <<>>, 0,
                     [c \in Calls |-> IF c \in Exposed THEN b ELSE PlainBody])

\* ---- environment -----------------------------------------------------
\* one event of the environment is spent
EnvEvent == envLeft > 0 /\ envLeft' = envLeft - 1

\* ---- transferOnce ------------------------------------------------------
BeginAmountFirst(c) ==
    /\ pc[c] = "start"
    /\ txStart' = [txStart EXCEPT ![c] = IF Valid(req[c]) /\ ~ctxDone[c] THEN clock ELSE @]
    /\ IF req[c].amount <= 0 THEN Returned(c, ErrAmount)
       ELSE IF req[c].from = req[c].to THEN Returned(c, ErrSameAddress)
       ELSE IF ctxDone[c] THEN Returned(c, ErrCtx)
       ELSE /\ pc' = [pc EXCEPT ![c] = "lock1"]
            /\ UNCHANGED <<result, failedAt, got, lastErr, sleep, rng>>
    /\ UNCHANGED <<wallets, transactions, nextId, locks, req, attempt, ctxDone,
                   writes, inserts, conflictsLeft, envLeft, readOut,
                   clock, listOut, http, collation, seed>>

\* the two argument checks, then BeginTx
Begin(c) ==
    /\ pc[c] = "start"
    /\ txStart' = [txStart EXCEPT ![c] = IF Valid(req[c]) /\ ~ctxDone[c] THEN clock ELSE @]
    /\ IF req[c].from = req[c].to THEN Returned(c, ErrSameAddress)
       ELSE IF req[c].amount <= 0 THEN Returned(c, ErrAmount)
       ELSE IF ctxDone[c] THEN Returned(c, ErrCtx)
       ELSE /\ pc' = [pc EXCEPT ![c] = "lock1"]
            /\ UNCHANGED <<result, failedAt, got, lastErr, sleep, rng>>
    /\ UNCHANGED <<wallets, transactions, nextId, locks, req, attempt, ctxDone,
                   writes, inserts, conflictsLeft, envLeft, readOut,
                   clock, listOut, http, collation, seed>>

\* the row the scan is at: a1 at lock1, a2 at lock2
ScanAddr(c) == StoreOrder(req[c].from, req[c].to)[IF pc[c] = "lock1" THEN 1 ELSE 2]

\* the funds are checked on the first row before the rows are counted
LockRowFundsFirst(c) ==
    /\ pc[c] \in {"lock1", "lock2"}
    /\ ~ctxDone[c]
    /\ LET a == ScanAddr(c)
           rows == IF a \in DOMAIN wallets
                   THEN Append(got[c], [addr |-> a, bal |-> wallets[a]])
                   ELSE got[c]
           held == IF a \in DOMAIN wallets THEN [locks EXCEPT ![a] = c] ELSE locks
       IN /\ a \in DOMAIN wallets => RowFree(a, c)
          /\ IF pc[c] = "lock1"
             THEN /\ locks' = held
                  /\ got' = [got EXCEPT ![c] = rows]
                  /\ pc' = [pc EXCEPT ![c] = "lock2"]
                  /\ UNCHANGED <<result, failedAt, writes, inserts, lastErr, sleep, rng>>
             ELSE IF Len(rows) > 0 /\ Insufficient(rows[1].bal, req[c].amount)
             THEN /\ Rollback(c)
                  /\ Returned(c, ErrInsufficientFunds)
             ELSE IF Len(rows) # 2
             THEN /\ Rollback(c)
                  /\ Returned(c, ErrWalletNotFound)
             ELSE /\ locks' = held
                  /\ got' = [got EXCEPT ![c] = rows]
                  /\ pc' = [pc EXCEPT ![c] = "upd1"]
                  /\ UNCHANGED <<result, failedAt, writes, inserts, lastErr, sleep, rng>>
    /\ UNCHANGED <<wallets, transactions, nextId, req, attempt, ctxDone,
                   conflictsLeft, envLeft, readOut,
                   clock, txStart, listOut, http, collation, seed>>

\* SELECT ... WHERE address = a1 OR address = a2 ORDER BY address FOR UPDATE,
\* one row per step; after the second row the checks on got
LockRow(c) ==
    /\ pc[c] \in {"lock1", "lock2"}
    /\ ~ctxDone[c]
    /\ LET a == ScanAddr(c)
           rows == IF a \in DOMAIN wallets
                   THEN Append(got[c], [addr |-> a, bal |-> wallets[a]])
                   ELSE got[c]
           held == IF a \in DOMAIN wallets THEN [locks EXCEPT ![a] = c] ELSE locks
       IN /\ a \in DOMAIN wallets => RowFree(a, c)
          /\ IF pc[c] = "lock1"
             THEN /\ locks' = held
                  /\ got' = [got EXCEPT ![c] = rows]
                  /\ pc' = [pc EXCEPT ![c] = "lock2"]
                  /\ UNCHANGED <<result, failedAt, writes, inserts, lastErr, sleep, rng>>
             ELSE IF Len(rows) # 2
             THEN /\ Rollback(c)
                  /\ Returned(c, ErrWalletNotFound)
             ELSE IF Insufficient(FromBal(rows, req[c].from, req[c].to), req[c].amount)
             THEN /\ Rollback(c)
                  /\ Returned(c, ErrInsufficientFunds)
             ELSE /\ locks' = held
                  /\ got' = [got EXCEPT ![c] = rows]
                  /\ pc' = [pc EXCEPT ![c] = "upd1"]
                  /\ UNCHANGED <<result, failedAt, writes, inserts, lastErr, sleep, rng>>
    /\ UNCHANGED <<wallets, transactions, nextId, req, attempt, ctxDone,
                   conflictsLeft, envLeft, readOut,
                   clock, txStart, listOut, http, collation, seed>>

Upd1Autocommit(c) ==
    /\ pc[c] = "upd1"
    /\ ~ctxDone[c]
    /\ wallets' = [wallets EXCEPT ![req[c].from] =
            NewFromBal(FromBal(got[c], req[c].from, req[c].to), req[c].amount)]
    /\ pc' = [pc EXCEPT ![c] = "upd2"]
    /\ UNCHANGED <<transactions, nextId, locks, req, attempt, ctxDone, got, writes,
                   inserts, result, conflictsLeft, envLeft, failedAt, readOut, lastErr,
                   clock, txStart, listOut, http, collation, seed, sleep, rng>>

\* UPDATE wallets SET balance_cents = fromBal-amountCents WHERE address = from
Upd1(c) ==
    /\ pc[c] = "upd1"
    /\ ~ctxDone[c]
    /\ writes' = [writes EXCEPT ![c] = Append(@,
            [addr |-> req[c].from,
             bal |-> NewFromBal(FromBal(got[c], req[c].from, req[c].to), req[c].amount)])]
    /\ pc' = [pc EXCEPT ![c] = "upd2"]
    /\ UNCHANGED <<wallets, transactions, nextId, locks, req, attempt, ctxDone, got,
                   inserts, result, conflictsLeft, envLeft, failedAt, readOut, lastErr,
                   clock, txStart, listOut, http, collation, seed, sleep, rng>>

\* the credit written to a row that is neither from nor to
Upd2OtherRow(c) ==
    /\ pc[c] = "upd2"
    /\ ~ctxDone[c]
    /\ writes' = [writes EXCEPT ![c] = Append(@,
            [addr |-> CHOOSE a \in DOMAIN wallets : a \notin {req[c].from, req[c].to},
             bal |-> NewToBal(ToBal(got[c], req[c].from, req[c].to), req[c].amount)])]
    /\ pc' = [pc EXCEPT ![c] = "ins"]
    /\ UNCHANGED <<wallets, transactions, nextId, locks, req, attempt, ctxDone, got,
                   inserts, result, conflictsLeft, envLeft, failedAt, readOut, lastErr,
                   clock, txStart, listOut, http, collation, seed, sleep, rng>>

\* UPDATE wallets SET balance_cents = toBal+amountCents WHERE address = to
Upd2(c) ==
    /\ pc[c] = "upd2"
    /\ ~ctxDone[c]
    /\ writes' = [writes EXCEPT ![c] = Append(@,
            [addr |-> req[c].to,
             bal |-> NewToBal(ToBal(got[c], req[c].from, req[c].to), req[c].amount)])]
    /\ pc' = [pc EXCEPT ![c] = "ins"]
    /\ UNCHANGED <<wallets, transactions, nextId, locks, req, attempt, ctxDone, got,
                   inserts, result, conflictsLeft, envLeft, failedAt, readOut, lastErr,
                   clock, txStart, listOut, http, collation, seed, sleep, rng>>

InsAutocommit(c) ==
    /\ pc[c] = "ins"
    /\ ~ctxDone[c]
    /\ transactions' = Append(transactions,
            [id |-> nextId, from |-> req[c].from, to |-> req[c].to,
             amount |-> req[c].amount, created |-> txStart[c]])
    /\ nextId' = nextId + 1
    /\ pc' = [pc EXCEPT ![c] = "commit"]
    /\ UNCHANGED <<wallets, locks, req, attempt, ctxDone, got, writes, inserts,
                   result, conflictsLeft, envLeft, failedAt, readOut, lastErr,
                   clock, txStart, listOut, http, collation, seed, sleep, rng>>

\* an insert that is dropped when the log already holds the same from, to and amount
InsOnce(c) ==
    /\ pc[c] = "ins"
    /\ ~ctxDone[c]
    /\ inserts' = [inserts EXCEPT ![c] =
            IF \E i \in 1..Len(transactions) :
                  /\ transactions[i].from = req[c].from
                  /\ transactions[i].to = req[c].to
                  /\ transactions[i].amount = req[c].amount
            THEN @
            ELSE Append(@, [id |-> nextId, from |-> req[c].from, to |-> req[c].to,
                            amount |-> req[c].amount, created |-> txStart[c]])]
    /\ nextId' = nextId + 1
    /\ pc' = [pc EXCEPT ![c] = "commit"]
    /\ UNCHANGED <<wallets, transactions, locks, req, attempt, ctxDone, got,
                   writes, result, conflictsLeft, envLeft, failedAt, readOut, lastErr,
                   clock, txStart, listOut, http, collation, seed, sleep, rng>>

\* INSERT INTO transactions(from_address, to_address, amount_cents): id from the
\* sequence, created_at DEFAULT now(), the start time of the transaction
Ins(c) ==
    /\ pc[c] = "ins"
    /\ ~ctxDone[c]
    /\ inserts' = [inserts EXCEPT ![c] = Append(@,
            [id |-> nextId, from |-> req[c].from, to |-> req[c].to,
             amount |-> req[c].amount, created |-> txStart[c]])]
    /\ nextId' = nextId + 1
    /\ pc' = [pc EXCEPT ![c] = "commit"]
    /\ UNCHANGED <<wallets, transactions, locks, req, attempt, ctxDone, got,
                   writes, result, conflictsLeft, envLeft, failedAt, readOut, lastErr,
                   clock, txStart, listOut, http, collation, seed, sleep, rng>>

\* a commit that leaves only its own record in the log
CommitReplacesLog(c) ==
    /\ pc[c] = "commit"
    /\ ~ctxDone[c]
    /\ wallets' = Apply(wallets, writes[c])
    /\ transactions' = inserts[c]
    /\ locks' = Released(c)
    /\ writes' = [writes EXCEPT ![c] = <<>>]
    /\ inserts' = [inserts EXCEPT ![c] = <<>>]
    /\ Returned(c, Nil)
    /\ UNCHANGED <<nextId, req, attempt, ctxDone, conflictsLeft, envLeft, readOut,
                   clock, txStart, listOut, http, collation, seed>>

\* tx.Commit(): the private writes become the committed state, the locks are released
Commit(c) ==
    /\ pc[c] = "commit"
    /\ ~ctxDone[c]
    /\ wallets' = Apply(wallets, writes[c])
    /\ transactions' = transactions \o inserts[c]
    /\ locks' = Released(c)
    /\ writes' = [writes EXCEPT ![c] = <<>>]
    /\ inserts' = [inserts EXCEPT ![c] = <<>>]
    /\ Returned(c, Nil)
    /\ UNCHANGED <<nextId, req, attempt, ctxDone, conflictsLeft, envLeft, readOut,
                   clock, txStart, listOut, http, collation, seed>>

\* the error is returned and the transaction is left open
StoreFaultNoRollback(c) ==
    /\ c \in Exposed
    /\ \/ InTx(c)
       \/ pc[c] = "start" /\ Valid(req[c])
    /\ EnvEvent
    /\ UNCHANGED <<locks, writes, inserts>>
    /\ Returned(c, ErrStore)
    /\ UNCHANGED <<wallets, transactions, nextId, req, attempt, ctxDone,
                   conflictsLeft, readOut,
                   clock, txStart, listOut, http, collation, seed>>

\* a statement of the attempt (BeginTx included) fails with a storage error other than 40P01
StoreFault(c) ==
    /\ c \in Exposed
    /\ \/ InTx(c)
       \/ pc[c] = "start" /\ Valid(req[c])
    /\ EnvEvent
    /\ Rollback(c)
    /\ Returned(c, ErrStore)
    /\ UNCHANGED <<wallets, transactions, nextId, req, attempt, ctxDone,
                   conflictsLeft, readOut,
                   clock, txStart, listOut, http, collation, seed>>

\* the store aborts the lock query with 40P01
Deadlock(c) ==
    /\ c \in Exposed
    /\ pc[c] \in {"lock1", "lock2"}
    /\ IF conflictsLeft[c] > 0
       THEN /\ conflictsLeft' = [conflictsLeft EXCEPT ![c] = @ - 1]
            /\ UNCHANGED envLeft
       ELSE /\ EnvEvent
            /\ UNCHANGED conflictsLeft
    /\ Rollback(c)
    /\ Returned(c, ErrDeadlock)
    /\ UNCHANGED <<wallets, transactions, nextId, req, attempt, ctxDone, readOut,
                   clock, txStart, listOut, http, collation, seed>>

CtxCancelUnheard(c) ==
    /\ c \in Exposed
    /\ pc[c] # "done"
    /\ ~ctxDone[c]
    /\ EnvEvent
    /\ ctxDone' = [ctxDone EXCEPT ![c] = TRUE]
    /\ UNCHANGED <<wallets, transactions, nextId, locks, req, pc, attempt, got,
                   writes, inserts, result, conflictsLeft, failedAt, readOut, lastErr,
                   clock, txStart, listOut, http, collation, seed, sleep, rng>>

\* the caller's ctx is cancelled or its deadline passes. A call parked in the
\* select of the backoff is woken by the close of ctx.Done(): that case is taken
\* and Transfer returns ctx.Err(). Anywhere else the call meets the closed
\* channel at its next statement
CtxCancel(c) ==
    /\ c \in Exposed
    /\ pc[c] # "done"
    /\ ~ctxDone[c]
    /\ EnvEvent
    /\ ctxDone' = [ctxDone EXCEPT ![c] = TRUE]
    /\ IF pc[c] = "backoff"
       THEN /\ pc' = [pc EXCEPT ![c] = "done"]
            /\ result' = [result EXCEPT ![c] = ErrCtx]
       ELSE UNCHANGED <<pc, result>>
    /\ UNCHANGED <<wallets, transactions, nextId, locks, req, attempt, got,
                   writes, inserts, conflictsLeft, failedAt, readOut, lastErr,
                   clock, txStart, listOut, http, collation, seed, sleep, rng>>

\* a statement of the open transaction returns the context's error
CtxAbort(c) ==
    /\ InTx(c)
    /\ ctxDone[c]
    /\ Rollback(c)
    /\ Returned(c, ErrCtx)
    /\ UNCHANGED <<wallets, transactions, nextId, req, attempt, ctxDone,
                   conflictsLeft, envLeft, readOut,
                   clock, txStart, listOut, http, collation, seed>>

\* ---- Transfer's retry loop ---------------------------------------------
BackoffElapsedOneMore(c) ==
    /\ pc[c] = "backoff"
    /\ attempt' = [attempt EXCEPT ![c] = @ + 1]
    /\ IF attempt[c] + 1 <= maxAttempts
       THEN /\ pc' = [pc EXCEPT ![c] = "start"]
            /\ UNCHANGED result
       ELSE /\ pc' = [pc EXCEPT ![c] = "done"]
            /\ result' = [result EXCEPT ![c] = ErrRetries]
    /\ UNCHANGED <<wallets, transactions, nextId, locks, req, ctxDone, got,
                   writes, inserts, conflictsLeft, envLeft, failedAt, readOut, lastErr,
                   clock, txStart, listOut, http, collation, seed, sleep, rng>>

\* case <-time.After(sleep): continue. With the ctx done as well both cases are
\* ready and select takes either
BackoffElapsed(c) ==
    /\ pc[c] = "backoff"
    /\ attempt' = [attempt EXCEPT ![c] = @ + 1]
    /\ IF attempt[c] + 1 < maxAttempts
       THEN /\ pc' = [pc EXCEPT ![c] = "start"]
            /\ UNCHANGED result
       ELSE /\ pc' = [pc EXCEPT ![c] = "done"]
            /\ result' = [result EXCEPT ![c] = ErrRetries]
    /\ UNCHANGED <<wallets, transactions, nextId, locks, req, ctxDone, got,
                   writes, inserts, conflictsLeft, envLeft, failedAt, readOut, lastErr,
                   clock, txStart, listOut, http, collation, seed, sleep, rng>>

\* case <-ctx.Done(): return ctx.Err(), for a call that enters the select with its
\* ctx already done
BackoffCancelled(c) ==
    /\ pc[c] = "backoff"
    /\ ctxDone[c]
    /\ pc' = [pc EXCEPT ![c] = "done"]
    /\ result' = [result EXCEPT ![c] = ErrCtx]
    /\ UNCHANGED <<wallets, transactions, nextId, locks, req, attempt, ctxDone, got,
                   writes, inserts, conflictsLeft, envLeft, failedAt, readOut, lastErr,
                   clock, txStart, listOut, http, collation, seed, sleep, rng>>

\* ---- GetBalance --------------------------------------------------------
\* a read that takes no row for a zero balance
GetBalanceNoRows(a) ==
    /\ EnvEvent
    /\ readOut' = [balance |-> IF a \in DOMAIN wallets THEN wallets[a] ELSE 0,
                   err |-> Nil,
                   during |-> \E c \in DOMAIN pc : writes[c] # <<>>]
    /\ UNCHANGED <<wallets, transactions, nextId, locks, req, pc, attempt, ctxDone,
                   got, writes, inserts, result, conflictsLeft, failedAt, lastErr,
                   clock, txStart, listOut, http, collation, seed, sleep, rng>>

\* a read that sees the writes of open transactions
GetBalanceDirty(a) ==
    /\ EnvEvent
    /\ readOut' = [balance |->
                      IF a \notin DOMAIN wallets THEN 0
                      ELSE IF \E c \in DOMAIN pc : writes[c] # <<>>
                      THEN LET c == CHOOSE d \in DOMAIN pc : writes[d] # <<>>
                           IN Apply(wallets, writes[c])[a]
                      ELSE wallets[a],
                   err |-> IF a \in DOMAIN wallets THEN Nil ELSE ErrWalletNotFound,
                   during |-> \E c \in DOMAIN pc : writes[c] # <<>>]
    /\ UNCHANGED <<wallets, transactions, nextId, locks, req, pc, attempt, ctxDone,
                   got, writes, inserts, result, conflictsLeft, failedAt, lastErr,
                   clock, txStart, listOut, http, collation, seed, sleep, rng>>

\* SELECT balance_cents FROM wallets WHERE address=$1, by another client
GetBalance(a) ==
    /\ EnvEvent
    /\ readOut' = [balance |-> IF a \in DOMAIN wallets THEN wallets[a] ELSE 0,
                   err |-> IF a \in DOMAIN wallets THEN Nil ELSE ErrWalletNotFound,
                   during |-> \E c \in DOMAIN pc : writes[c] # <<>>]
    /\ UNCHANGED <<wallets, transactions, nextId, locks, req, pc, attempt, ctxDone,
                   got, writes, inserts, result, conflictsLeft, failedAt, lastErr,
                   clock, txStart, listOut, http, collation, seed, sleep, rng>>

\* ---- GetLastTransactions ------------------------------------------------
ClampNoCap(n) == IF n <= 0 THEN defaultLimit ELSE n
\* if n <= 0 { n = 10 }; if n > 100 { n = 100 }
Clamp(n) ==
    LET m == IF n <= 0 THEN defaultLimit ELSE n
    IN IF m > maxLimit THEN maxLimit ELSE m

Take(rows, k) == SubSeq(rows, 1, IF k < Len(rows) THEN k ELSE Len(rows))
Reverse(rows) == [i \in 1..Len(rows) |-> rows[Len(rows) + 1 - i]]

\* rows in the order of the heap: the order of their INSERTs, that is of their ids
RECURSIVE ById(_)
ById(rows) ==
    IF rows = <<>> THEN <<>>
    ELSE LET i == CHOOSE j \in 1..Len(rows) :
                     \A k \in 1..Len(rows) : rows[j].id <= rows[k].id
         IN <<rows[i]>> \o ById(SubSeq(rows, 1, i - 1) \o SubSeq(rows, i + 1, Len(rows)))

\* ORDER BY created_at DESC LIMIT k, from time t downwards: no second key, rows
\* of one created_at come out in the order the scan meets them, forwards or
\* backwards
RECURSIVE ByCreatedDesc(_, _, _, _)
ByCreatedDesc(log, t, k, forwards) ==
    IF t < 0 \/ k <= 0 THEN <<>>
    ELSE LET same == ById(SelectSeq(log, LAMBDA r : r.created = t))
         IN Take((IF forwards THEN same ELSE Reverse(same))
                 \o ByCreatedDesc(log, t - 1, k - Len(same), forwards), k)

\* PostgresRepo.GetLastTransactions(ctx, n) on the committed log; no record is
\* younger than the clock
GetLastTransactions(n, forwards) ==
    ByCreatedDesc(transactions, clock, Clamp(n), forwards)

\* API.getLastTransactions: count is read, defaulted and clamped, the repository
\* is asked, and the rows or the error are written
getLastTransactions(q) ==
    /\ \E forwards, fails \in BOOLEAN :
          listOut' =
             IF q.kind = Invalid
             THEN [q |-> q, size |-> Len(transactions), code |-> 400, rows |-> <<>>]
             ELSE IF fails
             THEN [q |-> q, size |-> Len(transactions), code |-> 500, rows |-> <<>>]
             ELSE [q |-> q, size |-> Len(transactions), code |-> 200,
                   rows |-> GetLastTransactions(
                               Clamp(IF q.kind = Absent THEN defaultLimit ELSE q.v),
                               forwards)]
    /\ UNCHANGED <<wallets, transactions, nextId, locks, req, pc, attempt, ctxDone,
                   got, writes, inserts, result, conflictsLeft, envLeft, failedAt,
                   readOut, lastErr, clock, txStart, http, collation, seed, sleep, rng>>

\* the store's clock moves on
Tick ==
    /\ clock < LastTick(Len(transactions)) + MaxTicks
    /\ clock' = clock + 1
    /\ UNCHANGED <<wallets, transactions, nextId, locks, req, pc, attempt, ctxDone,
                   got, writes, inserts, result, conflictsLeft, envLeft, failedAt,
                   readOut, lastErr, txStart, listOut, http, collation, seed, sleep, rng>>

\* ---- SeedInitialWallets ---------------------------------------------------
Seeders == 1..NSeeders
\* rows already in wallets when the invocations start: none, or NWallets rows
\* with balance StartBal
InitSeed ==
    \E filled \in BOOLEAN : \E env \in 0..MaxEnv :
        StartSeeded(IF filled THEN [a \in Wallets |-> StartBal] ELSE <<>>,
                    <<>>, <<>>, env, <<>>, 0, <<>>,
                    [s \in Seeders |-> [pc |-> "count", n |-> 0, ins |-> <<>>,
                                        out |-> <<>>, err |-> Pending]])

Range(f) == {f[i] : i \in DOMAIN f}
\* randomHex(32) of the i-th row of invocation s: 64 hex digits, with all but
\* negligible probability a string no other draw gives
FreshAddr(s, i) == s * defaultWallets + i
\* every return of SeedInitialWallets with an error: the deferred tx.Rollback
\* drops the rows inserted
SeedFailed(s) ==
    seed' = [seed EXCEPT ![s].pc = "done", ![s].ins = <<>>, ![s].out = <<>>,
                         ![s].err = ErrSeed]

SeedFrame ==
    UNCHANGED <<transactions, nextId, locks, req, pc, attempt, ctxDone, got, writes,
                inserts, result, conflictsLeft, failedAt, readOut, lastErr, clock,
                txStart, listOut, http, collation, sleep, rng>>

\* SELECT COUNT(*) FROM wallets, the test n > 0, then BeginTx and PrepareContext
SeedCount(s) ==
    /\ seed[s].pc = "count"
    /\ LET n == Cardinality(DOMAIN wallets)
       IN seed' = [seed EXCEPT ![s].n = n,
                               ![s].pc = IF n > 0 THEN "done" ELSE "insert",
                               ![s].err = IF n > 0 THEN Nil ELSE Pending]
    /\ UNCHANGED <<wallets, envLeft>>
    /\ SeedFrame

SeedInsertAutocommit(s) ==
    /\ seed[s].pc = "insert"
    /\ Len(seed[s].ins) < defaultWallets
    /\ LET a == FreshAddr(s, Len(seed[s].ins) + 1)
       IN /\ wallets' = [b \in DOMAIN wallets \cup {a} |->
                            IF b \in DOMAIN wallets THEN wallets[b]
                            ELSE defaultBalanceCents]
          /\ seed' = [seed EXCEPT ![s].ins = Append(@, a)]
    /\ UNCHANGED envLeft
    /\ SeedFrame

\* one round of the loop: an address is drawn and the row inserted in the open
\* transaction. An address that a committed row or a row of this transaction has
\* violates UNIQUE(address); one that a row of another open transaction has makes
\* the INSERT wait
SeedInsert(s) ==
    /\ seed[s].pc = "insert"
    /\ Len(seed[s].ins) < defaultWallets
    /\ \/ /\ seed' = [seed EXCEPT ![s].ins = Append(@, FreshAddr(s, Len(@) + 1))]
          /\ UNCHANGED envLeft
       \/ /\ envLeft > 0
          /\ DOMAIN wallets \cup Range(seed[s].ins) # {}
          /\ envLeft' = envLeft - 1
          /\ SeedFailed(s)
    /\ UNCHANGED wallets
    /\ SeedFrame

\* tx.Commit after the tenth row, and the return of the addresses
SeedCommit(s) ==
    /\ seed[s].pc = "insert"
    /\ Len(seed[s].ins) = defaultWallets
    /\ wallets' = [a \in DOMAIN wallets \cup Range(seed[s].ins) |->
                      IF a \in DOMAIN wallets THEN wallets[a] ELSE defaultBalanceCents]
    /\ seed' = [seed EXCEPT ![s].pc = "done", ![s].out = seed[s].ins, ![s].err = Nil]
    /\ UNCHANGED envLeft
    /\ SeedFrame

\* the count, BeginTx, PrepareContext, randomHex, an INSERT or Commit fails, or
\* the 5 s of the context are over
SeedFault(s) ==
    /\ seed[s].pc \in {"count", "insert"}
    /\ envLeft > 0
    /\ envLeft' = envLeft - 1
    /\ SeedFailed(s)
    /\ UNCHANGED wallets
    /\ SeedFrame

NextSeed ==
    \/ \E s \in DOMAIN seed : SeedCount(s)
    \/ \E s \in DOMAIN seed : SeedInsert(s)
    \/ \E s \in DOMAIN seed : SeedCommit(s)
    \/ \E s \in DOMAIN seed : SeedFault(s)

SpecSeed == InitSeed /\ [][NextSeed]_vars

\* ---- POST /api/send ------------------------------------------------------
\* int64(req.Amount * 100) of an amount given in thousandths: the fraction of a
\* cent is dropped
ToCents(m) == IF m >= 0 THEN m \div 10 ELSE -((-m) \div 10)

postSendNoAmountCheck(c) ==
    /\ pc[c] = "recv"
    /\ IF ~http[c].wellFormed \/ http[c].fromLen # 64 \/ http[c].toLen # 64
       THEN /\ http' = [http EXCEPT ![c].code = 400]
            /\ pc' = [pc EXCEPT ![c] = "done"]
            /\ UNCHANGED req
       ELSE /\ req' = [req EXCEPT ![c].amount = ToCents(http[c].amount)]
            /\ pc' = [pc EXCEPT ![c] = "start"]
            /\ UNCHANGED http
    /\ UNCHANGED <<wallets, transactions, nextId, locks, attempt, ctxDone, got, writes,
                   inserts, result, conflictsLeft, envLeft, failedAt, readOut, lastErr,
                   clock, txStart, listOut, collation, seed, sleep, rng>>

\* API.postSend up to its call of Transfer: the body is decoded, the lengths of
\* the addresses and the sign of the amount are checked, the amount is converted
postSend(c) ==
    /\ pc[c] = "recv"
    /\ IF \/ ~http[c].wellFormed
          \/ http[c].fromLen # 64 \/ http[c].toLen # 64
          \/ http[c].amount <= 0
       THEN /\ http' = [http EXCEPT ![c].code = 400]
            /\ pc' = [pc EXCEPT ![c] = "done"]
            /\ UNCHANGED req
       ELSE /\ req' = [req EXCEPT ![c].amount = ToCents(http[c].amount)]
            /\ pc' = [pc EXCEPT ![c] = "start"]
            /\ UNCHANGED http
    /\ UNCHANGED <<wallets, transactions, nextId, locks, attempt, ctxDone, got, writes,
                   inserts, result, conflictsLeft, envLeft, failedAt, readOut, lastErr,
                   clock, txStart, listOut, collation, seed, sleep, rng>>

Next ==
    \/ \E c \in DOMAIN pc : Begin(c)
    \/ \E c \in DOMAIN pc : LockRow(c)
    \/ \E c \in DOMAIN pc : Upd1(c)
    \/ \E c \in DOMAIN pc : Upd2(c)
    \/ \E c \in DOMAIN pc : Ins(c)
    \/ \E c \in DOMAIN pc : Commit(c)
    \/ \E c \in DOMAIN pc : StoreFault(c)
    \/ \E c \in DOMAIN pc : Deadlock(c)
    \/ \E c \in DOMAIN pc : CtxCancel(c)
    \/ \E c \in DOMAIN pc : CtxAbort(c)
    \/ \E c \in DOMAIN pc : BackoffElapsed(c)
    \/ \E c \in DOMAIN pc : BackoffCancelled(c)
    \/ \E a \in 1..(Cardinality(DOMAIN wallets) + 1) : GetBalance(a)

Spec == Init /\ [][Next]_vars
SpecCross == InitCross /\ [][Next]_vars
SpecMissing == InitMissing /\ [][Next]_vars
SpecDisjoint == InitDisjoint /\ [][Next]_vars

\* the steps of a call itself: the goroutine is scheduled and the store answers
CallStep(c) ==
    \/ Begin(c) \/ LockRow(c) \/ Upd1(c) \/ Upd2(c) \/ Ins(c) \/ Commit(c)
    \/ BackoffElapsed(c)

NextHot ==
    \/ \E c \in DOMAIN pc : Begin(c)
    \/ \E c \in DOMAIN pc : LockRow(c)
    \/ \E c \in DOMAIN pc : Upd1(c)
    \/ \E c \in DOMAIN pc : Upd2(c)
    \/ \E c \in DOMAIN pc : Ins(c)
    \/ \E c \in DOMAIN pc : Commit(c)
    \/ \E c \in DOMAIN pc : Deadlock(c)
    \/ \E c \in DOMAIN pc : BackoffElapsed(c)

\* every call keeps running and a free row lock is granted to a call that waits for it
SpecHot == InitHot /\ [][NextHot]_vars /\ \A c \in HotCalls : WF_vars(CallStep(c))

\* a ring: call c moves one unit between wallet c and the next wallet round the
\* ring, forwards (A->B, B->C, C->A) or, call by call, backwards; every balance
\* covers all calls; the store raises 40P01 against call 1 at most once
Ring == 1..NParties
After(c) == (c % NParties) + 1
InitRing ==
    \E back \in [Ring -> BOOLEAN] : \E k \in {0, 1} :
        Start([a \in Ring |-> NParties],
              [c \in Ring |-> IF back[c]
                              THEN [from |-> After(c), to |-> c, amount |-> 1]
                              ELSE [from |-> c, to |-> After(c), amount |-> 1]],
              [c \in Ring |-> IF c \in Exposed THEN k ELSE 0], 0)

SpecRing == InitRing /\ [][NextHot]_vars

\* wallets with balances that differ (wallet a holds StartBal + a - 1), calls that
\* move one unit between wallets 1 and 2, call 1 either way; the store raises
\* 40P01 against call 1 at most once; the store's collation is either one
InitCollate ==
    \E co \in {Bytewise, Otherwise} : \E up \in BOOLEAN : \E k \in {0, 1} :
        StartStore([a \in Wallets |-> StartBal + a - 1],
                   [c \in Calls |-> IF c \in Exposed
                                    THEN [from |-> IF up THEN 1 ELSE 2,
                                          to |-> IF up THEN 2 ELSE 1, amount |-> 1]
                                    ELSE [from |-> 2, to |-> 1, amount |-> 1]],
                   [c \in Calls |-> IF c \in Exposed THEN k ELSE 0],
                   0, <<>>, 0, [c \in Calls |-> NoRequest], <<>>, NoJitter, co)

SpecCollate == InitCollate /\ [][NextHot]_vars

\* balances at the edge of the integer width: wallets 1 and 2 hold MaxInt between
\* them or one unit less, every other wallet holds nothing; the calls move 1,
\* MaxInt - 1 or MaxInt between wallets 1 and 2, call 1 either way
WideAmounts == {1, MaxInt - 1, MaxInt}
WideBalances == {0, 1, MaxInt - 1, MaxInt}
InitWide ==
    \E b1, b2 \in WideBalances : \E up \in BOOLEAN : \E k \in {0, 1} :
    \E m \in [Calls -> WideAmounts] :
        /\ b1 + b2 \in {MaxInt - 1, MaxInt}
        /\ \A c \in Calls \ Exposed : \A d \in Calls \ Exposed : c < d => m[c] <= m[d]
        /\ Start([a \in Wallets |-> IF a = 1 THEN b1 ELSE IF a = 2 THEN b2 ELSE 0],
                 [c \in Calls |-> IF c \in Exposed
                                  THEN [from |-> IF up THEN 1 ELSE 2,
                                        to |-> IF up THEN 2 ELSE 1, amount |-> m[c]]
                                  ELSE [from |-> 2, to |-> 1, amount |-> m[c]]],
                 [c \in Calls |-> IF c \in Exposed THEN k ELSE 0], 0)

SpecWide == InitWide /\ [][NextHot]_vars

\* the length of every backoff is followed: the calls contend for wallets 1 and
\* 2, the store raises 40P01 against call 1 in up to maxAttempts rounds, and the
\* generator gives any of Streams
InitBackoff ==
    \E r \in Streams : \E k \in {2, maxAttempts} :
        StartState([a \in Wallets |-> StartBal],
                   [c \in Calls |-> IF c \in Exposed
                                    THEN [from |-> 1, to |-> 2, amount |-> 1]
                                    ELSE [from |-> 2, to |-> 1, amount |-> 1]],
                   [c \in Calls |-> IF c \in Exposed THEN k ELSE 0],
                   0, <<>>, 0, [c \in Calls |-> NoRequest], <<>>, r)

SpecBackoff == InitBackoff /\ [][NextHot]_vars

\* reads of the log next to a transfer, with the clock running
NextList ==
    \/ \E c \in DOMAIN pc : Begin(c)
    \/ \E c \in DOMAIN pc : LockRow(c)
    \/ \E c \in DOMAIN pc : Upd1(c)
    \/ \E c \in DOMAIN pc : Upd2(c)
    \/ \E c \in DOMAIN pc : Ins(c)
    \/ \E c \in DOMAIN pc : Commit(c)
    \/ \E q \in Counts : getLastTransactions(q)
    \/ Tick

SpecList == InitList /\ [][NextList]_vars

\* ---- the boundary's view of an outcome ---------------------------------
ResponseNoDefault(err) ==
    IF err = ErrWalletNotFound THEN [code |-> 404, body |-> "wallet not found"]
    ELSE IF err = ErrInsufficientFunds THEN [code |-> 409, body |-> "insufficient funds"]
    ELSE IF err = ErrSameAddress THEN [code |-> 400, body |-> "from must differ from to"]
    ELSE [code |-> 200, body |-> "ok"]

\* postSend: switch err, then the success response
Response(err) ==
    IF err = Nil THEN [code |-> 200, body |-> "ok"]
    ELSE IF err = ErrWalletNotFound THEN [code |-> 404, body |-> "wallet not found"]
    ELSE IF err = ErrInsufficientFunds THEN [code |-> 409, body |-> "insufficient funds"]
    ELSE IF err = ErrSameAddress THEN [code |-> 400, body |-> "from must differ from to"]
    ELSE [code |-> 500, body |-> "internal error"]

\* API.postSend after Transfer has returned: the status code is written
postSendWrite(c) ==
    /\ pc[c] = "done"
    /\ result[c] # Pending
    /\ http[c].code = 0
    /\ http' = [http EXCEPT ![c].code = Response(result[c]).code]
    /\ UNCHANGED <<wallets, transactions, nextId, locks, req, pc, attempt, ctxDone, got,
                   writes, inserts, result, conflictsLeft, envLeft, failedAt, readOut,
                   lastErr, clock, txStart, listOut, collation, seed, sleep, rng>>

NextSend ==
    \/ \E c \in DOMAIN pc : postSend(c)
    \/ \E c \in DOMAIN pc : postSendWrite(c)
    \/ Next

SpecSend == InitSend /\ [][NextSend]_vars

\* ---- properties --------------------------------------------------------
RECURSIVE SumOver(_, _)
SumOver(f, S) ==
    IF S = {} THEN 0
    ELSE LET x == CHOOSE y \in S : TRUE IN f[x] + SumOver(f, S \ {x})

TotalBalance == SumOver(wallets, DOMAIN wallets)
AllDone == \A c \in DOMAIN pc : pc[c] = "done"
OkCalls == {c \in DOMAIN pc : result[c] = Nil}
Amount == [c \in DOMAIN req |-> req[c].amount]
\* what the calls that returned Ok add up to on wallet a
Net(a) == SumOver(Amount, {c \in OkCalls : req[c].to = a})
          - SumOver(Amount, {c \in OkCalls : req[c].from = a})
\* the step ends call c
Finishes(c) == pc[c] # "done" /\ pc'[c] = "done"
BothExist(r) == r.from \in DOMAIN wallets /\ r.to \in DOMAIN wallets

\* C1: in every reachable committed state the sum of all balances equals the sum
\* fixed at initial population, whatever the calls did (Ok, rejected, retried,
\* cancelled, exhausted)
Conservation == TotalBalance = NWallets * StartBal

ConservationWitness ==
    \E c, d \in DOMAIN pc : result[c] = Nil /\ result[d] = ErrRetries

\* C2: no committed balance is negative and no balance GetBalance returned is negative
NonNegative ==
    /\ \A a \in DOMAIN wallets : wallets[a] >= 0
    /\ readOut.balance >= 0

NonNegativeWitness ==
    /\ readOut.err = Nil /\ readOut.during /\ readOut.balance = 0
    /\ \E a \in DOMAIN wallets : wallets[a] = 0

\* C3: the committed balances and log change only in the commit step of an attempt,
\* which lowers the sender, raises the receiver and appends the record together;
\* a step that ends an attempt in an error leaves the committed state as it was
AllOrNothing ==
    [][/\ (wallets' # wallets \/ transactions' # transactions) =>
             \E c \in DOMAIN pc :
                /\ pc[c] = "commit" /\ Finishes(c) /\ result'[c] = Nil
                /\ wallets'[req[c].from] < wallets[req[c].from]
                /\ wallets'[req[c].to] > wallets[req[c].to]
                /\ Len(transactions') = Len(transactions) + 1
       /\ \A c \in DOMAIN pc :
             (pc[c] # pc'[c] /\ pc'[c] \in {"backoff", "done"} /\ result'[c] # Nil)
                => UNCHANGED <<wallets, transactions>>]_vars

AllOrNothingWitness ==
    \E c \in DOMAIN pc : pc[c] = "done" /\ failedAt[c] = "write"

\* C4: once all calls have finished, every balance is the initial balance plus the
\* amounts of the Ok transfers to the wallet minus those of the Ok transfers from it
NoLostUpdates ==
    AllDone => \A a \in DOMAIN wallets : wallets[a] = StartBal + Net(a)

NoLostUpdatesWitness ==
    /\ AllDone
    /\ \E c, d \in OkCalls :
          c # d /\ req[c].from = req[d].to /\ req[c].to = req[d].from

\* C5: NPairs transfers A->B and NPairs transfers B->A of one amount, with both
\* balances NPairs times the amount and no fault, 40P01 or cancellation: every
\* call returns Ok and both balances end where they started
CrossQuiet == envLeft = 1 /\ conflictsLeft[1] = 1
CrossTransfers ==
    (AllDone /\ CrossQuiet) =>
        /\ \A c \in DOMAIN pc : result[c] = Nil
        /\ \A a \in DOMAIN wallets : wallets[a] = NPairs * req[1].amount

CrossTransfersWitness ==
    AllDone /\ CrossQuiet /\ Len(transactions) = 2 * NPairs

\* C6: a call that returns Ok has, in its commit, lowered the sender by exactly
\* amount, raised the receiver by exactly amount and appended exactly one record
\* {from, to, amount}; a call with from # to, both wallets existing, amount > 0
\* and balance(from) >= amount returns Ok unless the store or the context fails it
TransferSucceeds ==
    [][\A c \in DOMAIN pc :
          LET r == req[c]
              n == Len(transactions)
          IN /\ (Finishes(c) /\ result'[c] = Nil) =>
                   /\ wallets' = [wallets EXCEPT ![r.from] = @ - r.amount,
                                                 ![r.to] = @ + r.amount]
                   /\ Len(transactions') = n + 1
                   /\ SubSeq(transactions', 1, n) = transactions
                   /\ transactions'[n + 1].from = r.from
                   /\ transactions'[n + 1].to = r.to
                   /\ transactions'[n + 1].amount = r.amount
             /\ (Finishes(c) /\ result'[c] \notin {Nil, ErrStore, ErrCtx, ErrRetries}) =>
                   \/ ~Valid(r)
                   \/ ~BothExist(r)
                   \/ wallets[r.from] < r.amount]_vars

TransferSucceedsWitness ==
    \E c \in DOMAIN pc :
        /\ result[c] = Nil
        /\ Len(transactions) = 1
        /\ wallets[req[c].from] = StartBal - req[c].amount
        /\ wallets[req[c].to] = StartBal + req[c].amount

\* C7: in every state the records of the log correspond one to one to the calls
\* that returned Ok, with the same from, to and amount, and the balances are those
\* the Ok calls alone produce: a call that returned an error left nothing
LogMatchesSuccesses ==
    /\ \E f \in [1..Len(transactions) -> OkCalls] :
          /\ \A i, j \in 1..Len(transactions) : f[i] = f[j] => i = j
          /\ \A c \in OkCalls : \E i \in 1..Len(transactions) : f[i] = c
          /\ \A i \in 1..Len(transactions) :
                /\ transactions[i].from = req[f[i]].from
                /\ transactions[i].to = req[f[i]].to
                /\ transactions[i].amount = req[f[i]].amount
    /\ \A a \in DOMAIN wallets : wallets[a] = StartBal + Net(a)

LogMatchesSuccessesWitness ==
    \E c, d \in DOMAIN pc :
        /\ result[c] = Nil
        /\ pc[d] = "done" /\ result[d] # Nil /\ failedAt[d] = "write"

\* C8: with both rows locked, the attempt ends in InsufficientFunds exactly when the
\* sender's balance is strictly less than amount; it then changes no balance and no
\* record and the call returns at once; a transfer of the whole balance commits
\* and leaves the sender at 0
InsufficientExactly ==
    [][\A c \in DOMAIN pc :
          LET r == req[c]
          IN /\ (pc[c] = "lock2" /\ pc'[c] = "upd1") => wallets[r.from] >= r.amount
             /\ (result[c] # ErrInsufficientFunds /\ result'[c] = ErrInsufficientFunds) =>
                   /\ pc[c] = "lock2" /\ pc'[c] = "done"
                   /\ BothExist(r)
                   /\ wallets[r.from] < r.amount
                   /\ UNCHANGED <<wallets, transactions, attempt>>
             /\ (pc[c] = "lock2" /\ Finishes(c) /\ BothExist(r)
                   /\ result'[c] \notin {ErrStore, ErrCtx}) =>
                   /\ result'[c] = ErrInsufficientFunds
                   /\ wallets[r.from] < r.amount
             /\ (Finishes(c) /\ result'[c] = Nil /\ wallets[r.from] = r.amount) =>
                   wallets'[r.from] = 0]_vars

InsufficientExactlyWitness ==
    \E c, d \in DOMAIN pc :
        /\ result[c] = ErrInsufficientFunds
        /\ result[d] = Nil /\ wallets[req[d].from] = 0

\* C9: a call with from = to never opens a transaction or takes a lock; it returns
\* SameAddress for every amount, whether or not the wallet exists, and its step
\* changes no balance, no record, no lock and no sequence value
SameAddressRejected ==
    /\ [](\A c \in DOMAIN pc :
            req[c].from = req[c].to =>
               /\ pc[c] \in {"start", "done"}
               /\ pc[c] = "done" => result[c] = ErrSameAddress
               /\ \A a \in DOMAIN locks : locks[a] # c)
    /\ [][\A c \in DOMAIN pc :
            (req[c].from = req[c].to /\ pc'[c] # pc[c]) =>
               UNCHANGED <<wallets, transactions, locks, nextId>>]_vars

SameAddressRejectedWitness ==
    \E c \in DOMAIN pc :
        /\ result[c] = ErrSameAddress
        /\ req[c].from \notin DOMAIN wallets
        /\ req[c].amount <= 0
        /\ \E d \in DOMAIN pc : result[d] = Nil

\* C10: a call with from # to and amount <= 0 returns an outcome of its own: what
\* the boundary makes of it differs from what it makes of a storage error, of an
\* exhausted retry budget and of every other outcome
InvalidAmountDistinct ==
    \A c \in DOMAIN pc :
        (pc[c] = "done" /\ req[c].from # req[c].to /\ req[c].amount <= 0) =>
            \A e \in {Nil, ErrWalletNotFound, ErrInsufficientFunds, ErrSameAddress,
                      ErrRetries, ErrStore, ErrCtx} :
                Response(result[c]) # Response(e)

\* C11: a call with from # to and amount > 0 whose sender, receiver or both have no
\* row ends in WalletNotFound unless the store or the context fails it, the same
\* in the three cases; it never writes, and the step that returns WalletNotFound
\* changes no balance and no record and leaves no row lock with the call
WalletNotFoundOutcome ==
    /\ [](\A c \in DOMAIN pc :
            (Valid(req[c]) /\ ~BothExist(req[c])) =>
               /\ pc[c] \notin {"upd1", "upd2", "ins", "commit"}
               /\ writes[c] = <<>> /\ inserts[c] = <<>>
               /\ pc[c] = "done" => /\ result[c] \in {ErrWalletNotFound, ErrStore,
                                                      ErrCtx, ErrRetries}
                                    /\ \A a \in DOMAIN locks : locks[a] # c)
    /\ [][\A c \in DOMAIN pc :
            /\ (result[c] # ErrWalletNotFound /\ result'[c] = ErrWalletNotFound) =>
                  /\ Valid(req[c]) /\ ~BothExist(req[c])
                  /\ pc[c] = "lock2" /\ pc'[c] = "done"
                  /\ UNCHANGED <<wallets, transactions, attempt>>
                  /\ \A a \in DOMAIN locks : locks'[a] # c
            /\ (pc[c] = "lock2" /\ Finishes(c) /\ ~BothExist(req[c])
                  /\ result'[c] \notin {ErrStore, ErrCtx}) =>
                  result'[c] = ErrWalletNotFound]_vars

\* the call found one of its two rows, took that lock and gave it up: another call holds it
WalletNotFoundOutcomeWitness ==
    \E c, d \in DOMAIN pc :
        /\ c # d
        /\ result[c] = ErrWalletNotFound
        /\ req[c].to \in DOMAIN wallets /\ req[c].from \notin DOMAIN wallets
        /\ locks[req[c].to] = d
        /\ wallets[req[c].to] < req[c].amount

\* the attempt of c is at the lock query and the row it asks for is locked by d
WaitsFor(c, d) ==
    /\ pc[c] \in {"lock1", "lock2"}
    /\ ScanAddr(c) \in DOMAIN locks
    /\ locks[ScanAddr(c)] = d

\* C12: an attempt asks for its two row locks in ascending address order whichever
\* account is the sender: a call that still asks for a lock holds no row above the
\* one it asks for, Transfer(A,B) and Transfer(B,A) ask in the same order, and no
\* two attempts ever each hold a lock the other is waiting for
AscendingLockOrder ==
    /\ \A c \in DOMAIN pc : \A a \in DOMAIN locks :
          (locks[a] = c /\ pc[c] \in {"lock1", "lock2"}) => a < ScanAddr(c)
    /\ \A c, d \in DOMAIN pc :
          (req[c].from = req[d].to /\ req[c].to = req[d].from) =>
             LockOrder(req[c].from, req[c].to) = LockOrder(req[d].from, req[d].to)
    /\ \A c, d \in DOMAIN pc : c # d => ~(WaitsFor(c, d) /\ WaitsFor(d, c))

\* opposite transfers on one pair: one holds the lower row, the other waits for that row
AscendingLockOrderWitness ==
    \E c, d \in DOMAIN pc :
        /\ req[c].from = req[d].to /\ req[c].to = req[d].from /\ req[c].from < req[c].to
        /\ pc[c] = "lock2" /\ locks[req[c].from] = c
        /\ WaitsFor(d, c) /\ ScanAddr(d) = req[d].to

\* C13: a call runs at most maxAttempts attempts, numbered 0..maxAttempts-1; only a
\* 40P01 at the lock query sends it to the backoff; from the backoff it starts a
\* whole new attempt (nothing locked, nothing written, nothing scanned) while
\* fewer than maxAttempts attempts have run; it returns the exhausted-retries
\* error exactly after the backoff of attempt maxAttempts-1, unless cancelled there
BoundedRetry ==
    /\ [](\A c \in DOMAIN pc :
            /\ attempt[c] <= maxAttempts
            /\ pc[c] # "done" => attempt[c] < maxAttempts
            /\ result[c] = ErrRetries => attempt[c] = maxAttempts)
    /\ [][\A c \in DOMAIN pc :
            /\ (pc[c] # "backoff" /\ pc'[c] = "backoff") =>
                  /\ pc[c] \in {"lock1", "lock2"}
                  /\ attempt'[c] = attempt[c]
            /\ (pc[c] = "backoff" /\ pc'[c] = "start") =>
                  /\ attempt'[c] = attempt[c] + 1
                  /\ attempt'[c] < maxAttempts
                  /\ writes'[c] = <<>> /\ inserts'[c] = <<>> /\ got'[c] = <<>>
                  /\ \A a \in DOMAIN locks : locks'[a] # c
            /\ attempt'[c] # attempt[c] => pc[c] = "backoff"
            /\ (result[c] # ErrRetries /\ result'[c] = ErrRetries) =>
                  /\ pc[c] = "backoff" /\ attempt[c] = maxAttempts - 1
                  /\ UNCHANGED <<wallets, transactions, locks>>
            /\ (pc[c] = "backoff" /\ Finishes(c) /\ ~ctxDone'[c]) =>
                  /\ attempt[c] = maxAttempts - 1
                  /\ result'[c] = ErrRetries]_vars

BoundedRetryWitness ==
    \E c, d \in DOMAIN pc :
        /\ result[c] = ErrRetries /\ attempt[c] = maxAttempts /\ conflictsLeft[c] = 0
        /\ result[d] = Nil /\ attempt[d] = 0

\* C14: what the boundary makes of an exhausted retry budget differs from what it
\* makes of a fatal storage error
ExhaustedDistinct ==
    \A c \in DOMAIN pc :
        (pc[c] = "done" /\ result[c] = ErrRetries) =>
            Response(result[c]) # Response(ErrStore)

\* the step ends an attempt of c: transferOnce returns
EndsAttempt(c) == pc[c] \in {"start", "lock1", "lock2", "upd1", "upd2", "ins", "commit"}
                  /\ pc'[c] \in {"backoff", "done"}

\* C15: only the 40P01 error is retried. An attempt that ends with SameAddress, the
\* amount error, WalletNotFound, InsufficientFunds, the context's error or another
\* storage error makes Transfer return that error in the same step, with no backoff
\* and the attempt counter as it was; a call that has returned takes no further step
OnlyDeadlockRetried ==
    /\ [](\A c \in DOMAIN pc :
            /\ pc[c] = "backoff" => lastErr[c] = ErrDeadlock
            /\ (pc[c] = "done" /\ lastErr[c] # ErrDeadlock) => result[c] = lastErr[c]
            /\ (pc[c] = "done" /\ lastErr[c] = ErrDeadlock) =>
                  result[c] \in {ErrRetries, ErrCtx})
    /\ [][\A c \in DOMAIN pc :
            /\ (EndsAttempt(c) /\ lastErr'[c] \in {ErrSameAddress, ErrAmount,
                     ErrWalletNotFound, ErrInsufficientFunds, ErrCtx, ErrStore}) =>
                  /\ pc'[c] = "done"
                  /\ result'[c] = lastErr'[c]
                  /\ attempt'[c] = attempt[c]
            /\ (EndsAttempt(c) /\ pc'[c] = "backoff") => lastErr'[c] = ErrDeadlock
            /\ pc[c] = "done" =>
                  /\ pc'[c] = "done" /\ result'[c] = result[c]
                  /\ attempt'[c] = attempt[c]]_vars

\* a storage error in a retried attempt, and a business rejection in a first attempt
OnlyDeadlockRetriedWitness ==
    \E c, d \in DOMAIN pc :
        /\ result[c] = ErrStore /\ attempt[c] >= 1
        /\ result[d] = ErrInsufficientFunds /\ attempt[d] = 0

\* C16: a cancellation that reaches a call sleeping in the backoff makes it return
\* the context's error in that step, the attempt counter as it was; a call whose
\* ctx is done completes no statement of its attempt: its wait for a row lock ends
\* with the context's error and its locks released, unless the store ends the
\* statement with an error of its own; no step of such a call changes a balance
\* or the log
CancellationHonoured ==
    [][\A c \in DOMAIN pc :
          /\ (~ctxDone[c] /\ ctxDone'[c] /\ pc[c] = "backoff") =>
                /\ pc'[c] = "done" /\ result'[c] = ErrCtx
                /\ attempt'[c] = attempt[c]
                /\ UNCHANGED <<wallets, transactions, locks>>
          /\ (ctxDone[c] /\ pc'[c] # pc[c]) =>
                /\ UNCHANGED <<wallets, transactions>>
                /\ pc'[c] \in {"start", "backoff", "done"}
                /\ \A a \in DOMAIN locks : locks'[a] # c
          /\ (ctxDone[c] /\ InTx(c) /\ pc'[c] # pc[c]
                /\ lastErr'[c] \notin {ErrStore, ErrDeadlock}) =>
                /\ pc'[c] = "done" /\ result'[c] = ErrCtx
                /\ attempt'[c] = attempt[c]
          /\ (ctxDone[c] /\ pc[c] = "backoff" /\ Finishes(c)) =>
                result'[c] \in {ErrCtx, ErrRetries}]_vars

\* cancelled in a retried round while another call holds a row lock: nothing committed
CancellationHonouredWitness ==
    \E c, d \in DOMAIN pc :
        /\ ctxDone[c] /\ result[c] = ErrCtx
        /\ lastErr[c] = ErrDeadlock /\ attempt[c] >= 1
        /\ \E a \in DOMAIN locks : locks[a] = d
        /\ transactions = <<>>

\* C17: on a hot pair, with funds for every transfer, no cancellation and fewer
\* than maxAttempts 40P01 rounds per call, every call eventually returns Ok within
\* its attempts, and the two balances end at the initial balance plus the net of
\* the transfers, their sum unchanged
HotPairLiveness ==
    <>[](/\ AllDone
         /\ \A c \in DOMAIN pc : result[c] = Nil /\ attempt[c] < maxAttempts
         /\ \A a \in DOMAIN wallets :
               wallets[a] = Cardinality(DOMAIN pc) * req[1].amount + Net(a)
         /\ TotalBalance = 2 * Cardinality(DOMAIN pc) * req[1].amount
         /\ Len(transactions) = Cardinality(DOMAIN pc))

\* all returned Ok, call 1 in its last attempt, with transfers in both directions
HotPairLivenessWitness ==
    /\ AllDone
    /\ \A c \in DOMAIN pc : result[c] = Nil
    /\ attempt[1] = maxAttempts - 1
    /\ \E c, d \in DOMAIN pc : req[c].from = req[d].to
    /\ Cardinality(DOMAIN pc) > 2

\* the accounts of a call, and a call whose lock query cannot be handed its row
Pair(c) == {req[c].from, req[c].to}
Blocked(c) ==
    /\ pc[c] \in {"lock1", "lock2"}
    /\ ScanAddr(c) \in DOMAIN locks
    /\ ~RowFree(ScanAddr(c), c)

\* C18: a call holds locks on rows of its own pair only, and a call that cannot go
\* on at its lock query is kept by a call that holds a lock and shares an account
\* with it: calls on disjoint pairs never wait for each other, there is no lock
\* wider than a row
DisjointNeverBlock ==
    /\ \A a \in DOMAIN locks : locks[a] # 0 => a \in Pair(locks[a])
    /\ \A c \in DOMAIN pc :
          Blocked(c) =>
             \E d \in DOMAIN pc \ {c} :
                /\ \E a \in DOMAIN locks : locks[a] = d
                /\ Pair(c) \cap Pair(d) # {}

\* two calls on disjoint pairs each hold both rows of their pair, past the lock
\* query, while a third call waits for a row of its own pair
DisjointNeverBlockWitness ==
    \E c, d, e \in DOMAIN pc :
        /\ Pair(c) \cap Pair(d) = {}
        /\ pc[c] \in {"upd1", "upd2", "ins", "commit"}
        /\ pc[d] \in {"upd1", "upd2", "ins", "commit"}
        /\ Blocked(e) /\ Pair(e) = Pair(c)

\* C19: two calls with the same from, to and amount, the balance covering both,
\* both return Ok; when they are the only calls that have returned, the sender is
\* down by twice the amount, the receiver up by twice the amount, and the log
\* holds two records of that transfer with different ids
NoDeduplication ==
    \A c, d \in DOMAIN pc :
        (c # d /\ req[c] = req[d] /\ pc[c] = "done" /\ pc[d] = "done") =>
            LET init == Cardinality(DOMAIN pc) * req[1].amount
            IN /\ result[c] = Nil /\ result[d] = Nil
               /\ OkCalls = {c, d} =>
                     /\ wallets[req[c].from] = init - 2 * req[c].amount
                     /\ wallets[req[c].to] = init + 2 * req[c].amount
                     /\ Len(transactions) = 2
                     /\ transactions[1].id # transactions[2].id
                     /\ \A i \in 1..2 : /\ transactions[i].from = req[c].from
                                         /\ transactions[i].to = req[c].to
                                         /\ transactions[i].amount = req[c].amount

NoDeduplicationWitness ==
    \E c, d \in DOMAIN pc :
        /\ c # d /\ req[c] = req[d]
        /\ OkCalls = {c, d}
        /\ Len(transactions) = 2
        /\ \E e \in DOMAIN pc : pc[e] = "commit"

\* C20: an answered list request holds exactly min(k, size of the log) records,
\* never more than k, where k is 10 for a count that is absent, zero or negative,
\* 100 for a count above 100 and the count itself otherwise
ClampedLimit ==
    listOut.code = 200 =>
        LET k == IF listOut.q.kind = Absent \/ listOut.q.v <= 0 THEN 10
                 ELSE IF listOut.q.v > 100 THEN 100
                 ELSE listOut.q.v
        IN /\ Len(listOut.rows) <= k
           /\ Len(listOut.rows) = IF k < listOut.size THEN k ELSE listOut.size

ClampedLimitWitness ==
    /\ listOut.code = 200
    /\ listOut.q.kind = "int" /\ listOut.q.v = 5000
    /\ listOut.size = maxLimit + 1
    /\ Len(listOut.rows) = maxLimit

\* rows run from the latest created_at to the earliest, rows of one created_at by
\* id, upwards or downwards
OrderedByTimeThenId(rows, up) ==
    \A i, j \in 1..Len(rows) :
        i < j => \/ rows[i].created > rows[j].created
                 \/ /\ rows[i].created = rows[j].created
                    /\ IF up THEN rows[i].id < rows[j].id ELSE rows[i].id > rows[j].id

\* C21: every answered list request holds the records of the latest created_at,
\* latest first, with records of one created_at in the order of their ids; and the
\* answer is a function of the log: a request answered again over the same log
\* gets the same rows in the same order
ListDeterministic ==
    /\ [](listOut.code = 200 =>
            \/ OrderedByTimeThenId(listOut.rows, TRUE)
            \/ OrderedByTimeThenId(listOut.rows, FALSE))
    /\ [][(/\ listOut.code = 200 /\ listOut'.code = 200
            /\ listOut'.q = listOut.q
            /\ listOut'.size = listOut.size
            /\ transactions' = transactions) =>
              listOut'.rows = listOut.rows]_vars

RECURSIVE BalanceAfter(_, _)
BalanceAfter(a, k) ==
    IF k = 0 THEN StartBal
    ELSE BalanceAfter(a, k - 1)
         + (IF transactions[k].to = a THEN transactions[k].amount ELSE 0)
         - (IF transactions[k].from = a THEN transactions[k].amount ELSE 0)

\* C23: a balance that GetBalance returned is the balance of an account in a
\* committed state, that is after some prefix of the committed log, never a value
\* written by an open or rolled-back transaction; and GetBalance can take its step
\* on a row whose lock a transfer holds
CommittedReads ==
    /\ readOut.err = Nil =>
          \E a \in DOMAIN wallets : \E k \in 0..Len(transactions) :
              readOut.balance = BalanceAfter(a, k)
    /\ \A a \in DOMAIN locks :
          (locks[a] # 0 /\ envLeft > 0) => ENABLED GetBalance(a)

\* the read came while a transfer had written and not committed: it returned the
\* balance from before, and the transfer has committed since
CommittedReadsWitness ==
    /\ readOut.err = Nil /\ readOut.during /\ readOut.balance = StartBal
    /\ \A a \in 1..2 : wallets[a] # StartBal
    /\ \E a \in DOMAIN locks : locks[a] # 0

\* C24: no step adds or removes a row of wallets, and a step that changes the
\* balance of an account is the commit of a call that names the account as its
\* from or its to: every other balance stays as it is
TransferFrame ==
    [][/\ DOMAIN wallets' = DOMAIN wallets
       /\ \A a \in DOMAIN wallets :
             wallets'[a] # wallets[a] =>
                \E c \in DOMAIN pc :
                   /\ pc[c] = "commit" /\ Finishes(c) /\ result'[c] = Nil
                   /\ a \in Pair(c)
                   /\ \A b \in DOMAIN wallets \ Pair(c) : wallets'[b] = wallets[b]]_vars

\* transfers on two disjoint pairs have committed, a further pair is untouched
TransferFrameWitness ==
    \E c, d \in OkCalls :
        /\ Pair(c) \cap Pair(d) = {}
        /\ \A a \in Pair(c) \cup Pair(d) : wallets[a] # StartBal
        /\ readOut.err = Nil /\ readOut.during

\* C25: every step leaves the records of the log where and as they were, with
\* their id, from, to, amount and created_at, and at most adds records behind
\* them; every record has amount > 0 and an id of its own
AppendOnlyLog ==
    /\ [](\A i \in 1..Len(transactions) :
            /\ transactions[i].amount > 0
            /\ \A j \in 1..Len(transactions) :
                  transactions[i].id = transactions[j].id => i = j)
    /\ [][/\ Len(transactions') >= Len(transactions)
           /\ \A i \in 1..Len(transactions) : transactions'[i] = transactions[i]]_vars

\* a list request answered from a full log, and a transfer committed after it
AppendOnlyLogWitness ==
    /\ listOut.code = 200 /\ listOut.size = maxLimit
    /\ Len(listOut.rows) = maxLimit
    /\ Len(transactions) = maxLimit + 1
    /\ transactions[maxLimit + 1].created < clock

\* the code the contract gives to an outcome of Transfer
CodeOf(err) ==
    CASE err = Nil -> 200
      [] err = ErrWalletNotFound -> 404
      [] err = ErrInsufficientFunds -> 409
      [] err = ErrSameAddress -> 400
      [] OTHER -> 500

\* C26: a send request whose transfer has returned is answered with the one code
\* of the outcome: 200 for success, 404 for a missing wallet, 409 for insufficient
\* funds, 400 for equal addresses, 500 for every other error (cancellation,
\* retries used up, storage fault); the answer can be written as soon as the
\* transfer has returned, and a code once written stays
BoundaryMapping ==
    /\ [](\A c \in DOMAIN http :
            /\ (http[c].code # 0 /\ result[c] # Pending) => http[c].code = CodeOf(result[c])
            /\ (http[c].code = 0 /\ result[c] # Pending) => ENABLED postSendWrite(c))
    /\ [][\A c \in DOMAIN http : http[c].code # 0 => http'[c].code = http[c].code]_vars

\* one request answered 500 after its retries were used up, another answered 200
BoundaryMappingWitness ==
    \E c, d \in DOMAIN http :
        /\ result[c] = ErrRetries /\ http[c].code = 500
        /\ result[d] = Nil /\ http[d].code = 200

\* the request of call c fails the validation of the contract
BadRequest(c) == http[c].fromLen # 64 \/ http[c].toLen # 64 \/ http[c].amount <= 0

\* C27: a send request with an address of a length other than 64, or an amount
\* that is not positive, never reaches Transfer: it takes no lock, writes nothing
\* and has no outcome of the engine; the one step it takes answers 400 and leaves
\* the balances, the log and the locks as they were
ValidationNoStateChange ==
    /\ [](\A c \in DOMAIN http :
            BadRequest(c) =>
               /\ pc[c] \in {"recv", "done"}
               /\ result[c] = Pending /\ attempt[c] = 0
               /\ got[c] = <<>> /\ writes[c] = <<>> /\ inserts[c] = <<>>
               /\ \A a \in DOMAIN locks : locks[a] # c
               /\ pc[c] = "recv" => (http[c].code = 0 /\ ENABLED postSend(c))
               /\ pc[c] = "done" => http[c].code = 400)
    /\ [][\A c \in DOMAIN http :
            (BadRequest(c) /\ pc'[c] # pc[c]) =>
               /\ http'[c].code = 400
               /\ UNCHANGED <<wallets, transactions, nextId, locks>>]_vars

\* a request with an amount of zero or less and addresses of 64 characters was
\* answered 400, and the transfer of another request has committed
ValidationNoStateChangeWitness ==
    \E c, d \in DOMAIN http :
        /\ http[c].wellFormed /\ http[c].fromLen = 64 /\ http[c].toLen = 64
        /\ http[c].amount <= 0 /\ http[c].code = 400
        /\ result[d] = Nil /\ Len(transactions) = 1

\* C28: an invocation of SeedInitialWallets that found the table empty and
\* returns without error has added, in the one step of its commit, exactly
\* defaultWallets rows with addresses that differ from each other, each with
\* balance defaultBalanceCents, and returns these addresses; one that found a
\* row, or that returns an error, added nothing, left every row as it was and
\* returns no address; and no other step changes the table
InitialPopulation ==
    [][/\ \A s \in DOMAIN seed :
            (seed[s].pc # "done" /\ seed'[s].pc = "done") =>
               LET out == seed'[s].out
                   new == DOMAIN wallets' \ DOMAIN wallets
               IN IF seed'[s].err = Nil /\ seed'[s].n = 0
                  THEN /\ Len(out) = defaultWallets
                       /\ Cardinality(Range(out)) = defaultWallets
                       /\ new = Range(out)
                       /\ \A a \in new : wallets'[a] = defaultBalanceCents
                       /\ \A a \in DOMAIN wallets : wallets'[a] = wallets[a]
                  ELSE /\ out = <<>>
                       /\ wallets' = wallets
                       /\ seed'[s].err = Nil => Cardinality(DOMAIN wallets) > 0
       /\ wallets' # wallets =>
            \E s \in DOMAIN seed : seed[s].pc # "done" /\ seed'[s].pc = "done"
       /\ \A s \in DOMAIN seed :
            (seed[s].pc = "count" /\ seed'[s].pc # "count" /\ seed'[s].err # ErrSeed) =>
               seed'[s].n = Cardinality(DOMAIN wallets)]_vars

\* one invocation populated the empty table and returned ten addresses; another
\* counted afterwards and returned none; a third way out, an error, left nothing
InitialPopulationWitness ==
    \E s, t \in DOMAIN seed :
        /\ seed[s].pc = "done" /\ seed[s].err = Nil /\ Len(seed[s].out) = defaultWallets
        /\ seed[t].pc = "done" /\ seed[t].err = Nil /\ seed[t].n = defaultWallets
        /\ seed[t].out = <<>>
        /\ Cardinality(DOMAIN wallets) = defaultWallets

\* C29: when a call enters the backoff after its k-th failed attempt, k is in
\* 1..maxAttempts and the wait is 15*k ms plus a jitter of 0..14 ms; it is longer
\* than the call's wait before, and longer than any wait there can be after
\* attempt k-1
BackoffGrows ==
    [][\A c \in DOMAIN pc :
          (pc[c] # "backoff" /\ pc'[c] = "backoff") =>
             LET k == attempt[c] + 1
             IN /\ k \in 1..maxAttempts
                /\ sleep'[c] \in (15 * k)..(15 * k + 14)
                /\ sleep'[c] > sleep[c]
                /\ k > 1 => /\ sleep[c] \in (15 * (k - 1))..(15 * (k - 1) + 14)
                            /\ sleep'[c] > 15 * (k - 1) + 14]_vars

\* the wait after the tenth failed attempt with the smallest jitter, in a run
\* whose ninth wait had the largest
BackoffGrowsWitness ==
    \E c \in DOMAIN pc :
        /\ pc[c] = "backoff" /\ attempt[c] = maxAttempts - 1
        /\ sleep[c] = 15 * maxAttempts
        /\ \E i \in DOMAIN rng : rng[i] = JitterSpan - 1

\* call c waits for a row lock that another call d holds
Waits(c, d) == c # d /\ WaitsFor(c, d)
\* the rows call c holds locked
Held(c) == {a \in DOMAIN locks : locks[a] = c}

\* C30: in no reachable state is there a set of calls each of which waits for a
\* row lock held by a call of the set, so no cycle of waiting of any length, also
\* when the transfers form a ring A->B, B->C, C->A; a call that asks for a lock
\* holds only rows below the one it asks for, a call that is idle (before an
\* attempt, in the backoff, returned) holds none, and while a call has not
\* returned some call can take a step
NoWaitCycle ==
    /\ \A S \in SUBSET (DOMAIN pc) :
          S # {} => \E c \in S : \A d \in S : ~Waits(c, d)
    /\ \A c \in DOMAIN pc :
          /\ pc[c] \in {"lock1", "lock2"} => \A a \in Held(c) : a < ScanAddr(c)
          /\ pc[c] \in {"start", "backoff", "done"} => Held(c) = {}
    /\ (\E c \in DOMAIN pc : pc[c] # "done") => \E c \in DOMAIN pc : ENABLED CallStep(c)

\* the ring A->B, B->C, C->A: one call holds both its rows, a second holds a row
\* and waits for the first, a third waits for the first as well
NoWaitCycleWitness ==
    /\ \A c \in DOMAIN pc : req[c].from = c /\ req[c].to = (c % Cardinality(DOMAIN pc)) + 1
    /\ Cardinality(DOMAIN pc) > 2
    /\ \E c, d, e \in DOMAIN pc :
          /\ c # d
          /\ Waits(c, e) /\ Waits(d, e)
          /\ Held(d) # {} /\ Cardinality(Held(e)) = 2

\* C31: in every attempt that has passed the check of the funds, the locked
\* balance of the row of from covers the amount; the balance the first UPDATE
\* writes to from is the locked balance of from less the amount, and the balance
\* the second UPDATE writes to to is the locked balance of to plus the amount,
\* whichever of from and to is the lower address and in whichever order the
\* store returns the two rows
BalanceAttribution ==
    \A c \in DOMAIN pc :
        /\ pc[c] \in {"upd1", "upd2", "ins", "commit"} =>
              wallets[req[c].from] >= req[c].amount
        /\ pc[c] \in {"upd2", "ins", "commit"} =>
              writes[c][1] = [addr |-> req[c].from,
                              bal |-> wallets[req[c].from] - req[c].amount]
        /\ pc[c] \in {"ins", "commit"} =>
              writes[c][2] = [addr |-> req[c].to,
                              bal |-> wallets[req[c].to] + req[c].amount]

\* C32: what a call that has returned reports follows the order of the checks:
\* with from = to it is SameAddress whatever the amount and whether or not the
\* wallet exists; with from # to and amount <= 0 it is the amount error whether
\* or not the wallets exist; with from # to, amount > 0 and a wallet missing it
\* is never InsufficientFunds and never success, however large the amount; and
\* each of these errors is reported only in its case
OutcomePrecedence ==
    \A c \in DOMAIN pc :
        pc[c] = "done" =>
           /\ req[c].from = req[c].to => result[c] = ErrSameAddress
           /\ (req[c].from # req[c].to /\ req[c].amount <= 0) => result[c] = ErrAmount
           /\ (Valid(req[c]) /\ ~BothExist(req[c])) =>
                 result[c] \in {ErrWalletNotFound, ErrStore, ErrCtx, ErrRetries}
           /\ result[c] = ErrAmount => req[c].from # req[c].to
           /\ result[c] = ErrWalletNotFound => (Valid(req[c]) /\ ~BothExist(req[c]))
           /\ result[c] = ErrInsufficientFunds => (Valid(req[c]) /\ BothExist(req[c]))

\* every call has returned; one had no row for its sender and an amount above
\* every balance, and reported WalletNotFound
OutcomePrecedenceWitness ==
    /\ \A c \in DOMAIN pc : pc[c] = "done"
    /\ \E c \in DOMAIN pc :
          /\ result[c] = ErrWalletNotFound
          /\ req[c].from \notin DOMAIN wallets /\ req[c].to \in DOMAIN wallets
          /\ \A a \in DOMAIN wallets : wallets[a] < req[c].amount

\* C33: a call that is not inside an attempt (before its first attempt or between
\* two, sleeping in the backoff, or returned) holds no row lock and has no open
\* transaction: none of its writes or inserts is pending and no scanned row is
\* kept, whether the attempt ended by commit, by an error of its own checks, by
\* a storage error, by 40P01 or by the context
NoLockOutlivesAttempt ==
    \A c \in DOMAIN pc :
        pc[c] \in {"start", "backoff", "done"} =>
           /\ Held(c) = {}
           /\ writes[c] = <<>> /\ inserts[c] = <<>> /\ got[c] = <<>>
           /\ ~InTx(c)

\* an attempt of one call failed with a storage error after its first write, and
\* another call, inside its attempt, holds the lock of a row the first had locked
NoLockOutlivesAttemptWitness ==
    \E c, d \in DOMAIN pc :
        /\ c # d
        /\ result[c] = ErrStore /\ failedAt[c] = "write"
        /\ InTx(d) /\ Held(d) # {}
        /\ Held(d) \subseteq Pair(c)

\* C34: with balances whose sum at the start fits the integer width, every stored
\* balance stays within 0..MaxInt and their sum stays within MaxInt; the balance
\* the second UPDATE of an attempt writes to the receiver is the exact sum of the
\* receiver's locked balance and the amount, and that sum is at most MaxInt
NoWrapAround ==
    /\ \A a \in DOMAIN wallets : wallets[a] \in 0..MaxInt
    /\ TotalBalance <= MaxInt
    /\ \A c \in DOMAIN pc :
          pc[c] \in {"ins", "commit"} =>
             /\ wallets[req[c].to] + req[c].amount <= MaxInt
             /\ writes[c][2].bal = wallets[req[c].to] + req[c].amount

\* a transfer of MaxInt - 1 to a wallet that held 1 has committed: the receiver
\* holds MaxInt
NoWrapAroundWitness ==
    \E c \in OkCalls :
        /\ req[c].amount = MaxInt - 1
        /\ wallets[req[c].to] = MaxInt
        /\ wallets[req[c].from] = 0

\* C35: once an invocation of SeedInitialWallets has populated the table, the
\* table holds exactly defaultWallets wallets with defaultBalanceCents each,
\* whatever other invocations have run or are running, two that overlap on the
\* empty table among them
SeedingOnce ==
    (\E s \in DOMAIN seed : seed[s].out # <<>>) =>
        /\ Cardinality(DOMAIN wallets) = defaultWallets
        /\ TotalBalance = defaultWallets * defaultBalanceCents

====
